---- MODULE Spec2Model ----
(***************************************************************************)
(* A model of fury/molecular.py: the Molecule container (a vtkMolecule     *)
(* with Python-side metadata attributes), the functions that edit it, the  *)
(* PeriodicTable radius lookup and the three molecule-mapper actors.       *)
(*                                                                         *)
(* Lengths are in hundredths of an Angstrom so that the arithmetic stays   *)
(* in the integers.  Python strings are sequences of one-character         *)
(* strings, so that str.lower() is computed character by character.        *)
(***************************************************************************)
EXTENDS Integers, Sequences, FiniteSets, TLC

VARIABLES pc, molecule, attrs, molecule2, aliased, call, result

vars == <<pc, molecule, attrs, molecule2, aliased, call, result>>

----------------------------------------------------------------------------
(* Bounds of the model *)

MaxLen == 2

MaxAtoms == 2

MaxBonds == 1

----------------------------------------------------------------------------
(* Python values *)

\* Python's None, and an attribute that was never assigned
None == [kind |-> "None", val |-> <<>>]

Unset == [kind |-> "unset", val |-> <<>>]

NoCall == [fn |-> "none"]

NoResult == [raised |-> "none"]

ndarray(v) == [kind |-> "ndarray", val |-> v]

list(v) == [kind |-> "list", val |-> v]

isinstance_ndarray(x) == x.kind = "ndarray"

len(x) == Len(x.val)

\* an argument the caller passes, and one the caller leaves out
passed(v) == [given |-> TRUE, val |-> v]

omitted == [given |-> FALSE, val |-> <<>>]

ArgOrDefault(a, default) == IF a.given THEN a.val ELSE default

SeqsUpTo(S, n) == UNION {[1..k -> S] : k \in 0..n}

----------------------------------------------------------------------------
(* Input domains *)

\* atomic numbers that fit the molecule's unsigned short storage
AtomicNums == {1, 6}

\* integers a caller may put in a numpy array, one of them wider than 16 bits
ArrayInts == {1, 6, 65537}

Points == {<<0, 0, 0>>, <<150, 0, 0>>}

BondOrders == {1, 3, 4}

FieldNames == {"atom_names", "model", "residue_seq", "chain", "sheet", "helix", "is_hetatm"}

NoMeta == [f \in FieldNames |-> None]

FullMeta(n) ==
    [atom_names |-> ndarray([i \in 1..n |-> "CA"]),
     model |-> ndarray([i \in 1..n |-> 1]),
     residue_seq |-> ndarray([i \in 1..n |-> i]),
     chain |-> ndarray([i \in 1..n |-> 65]),
     sheet |-> ndarray(<< <<65, 2, 65, 2>> >>),
     helix |-> ndarray(<< <<65, 1, 65, 1>> >>),
     is_hetatm |-> ndarray([i \in 1..n |-> FALSE])]

----------------------------------------------------------------------------
(* vtkMolecule, as far as molecular.py drives it *)

\* vtkMolecule's own constructor: no atoms, no bonds
EmptyMolecule == [numAtoms |-> 0, atomicNumbers |-> <<>>, positions |-> <<>>, bonds |-> <<>>]

\* numpy_to_vtk(..., array_type=VTK_UNSIGNED_SHORT): astype(uint16) wraps
to_unsigned_short(v) == [i \in DOMAIN v |-> v[i] % 65536]

\* numpy_to_vtk_points: one point per row, in order
numpy_to_vtk_points(v) == [i \in DOMAIN v |-> v[i]]

\* vtkMolecule::Initialize(points, atomData): one atom per point, the array
\* named "Atomic Numbers" becomes the atomic-number array as it is
Initialize(points, atom_nums) ==
    [numAtoms |-> Len(points), atomicNumbers |-> atom_nums,
     positions |-> points, bonds |-> <<>>]

total_num_atoms(m) == m.numAtoms

total_num_bonds(m) == Len(m.bonds)

get_all_atomic_numbers(m) == m.atomicNumbers

get_all_atomic_positions(m) == m.positions

\* atom and bond indices are 0-based, as in the toolkit
get_atomic_number(m, atom_index) == m.atomicNumbers[atom_index + 1]

get_atomic_position(m, atom_index) == m.positions[atom_index + 1]

get_bond_order(m, bond_index) == m.bonds[bond_index + 1].order

----------------------------------------------------------------------------
(* Molecule.__init__ *)

LengthsMatch_Mutant(atomic_numbers, coords) == len(atomic_numbers) <= len(coords)

LengthsMatch(atomic_numbers, coords) == len(atomic_numbers) = len(coords)

NotArrays_Mutant(atomic_numbers, coords) ==
    ~isinstance_ndarray(atomic_numbers) /\ ~isinstance_ndarray(coords)

NotArrays(atomic_numbers, coords) ==
    ~isinstance_ndarray(atomic_numbers) \/ ~isinstance_ndarray(coords)

AtomNums_Mutant(atomic_numbers) ==
    LET v == to_unsigned_short(atomic_numbers.val)
    IN  [i \in DOMAIN v |-> v[Len(v) + 1 - i]]

AtomNums(atomic_numbers) == to_unsigned_short(atomic_numbers.val)

\* the object state and the exception a call of the constructor ends with
Molecule__init__(atomic_numbers, coords, meta) ==
    IF atomic_numbers = None /\ coords = None
    THEN [raised |-> "none", mol |-> EmptyMolecule,
          attrs |-> [f \in FieldNames |-> Unset]]
    ELSE IF NotArrays(atomic_numbers, coords)
    THEN [raised |-> "ValueError: atom_types and coords must be numpy arrays.",
          mol |-> EmptyMolecule, attrs |-> [f \in FieldNames |-> Unset]]
    ELSE IF LengthsMatch(atomic_numbers, coords)
    THEN [raised |-> "none",
          mol |-> Initialize(numpy_to_vtk_points(coords.val), AtomNums(atomic_numbers)),
          attrs |-> meta]
    ELSE [raised |-> "ValueError: Mismatch in length",
          mol |-> EmptyMolecule, attrs |-> [f \in FieldNames |-> Unset]]

CtorArgs(Ints, n) ==
    LET nums == {None} \cup {ndarray(v) : v \in SeqsUpTo(Ints, n)}
                       \cup {list(v) : v \in SeqsUpTo(Ints, n)}
        crds == {None} \cup {ndarray(v) : v \in SeqsUpTo(Points, n)}
                       \cup {list(v) : v \in SeqsUpTo(Points, n)}
    IN  UNION {{[atomic_numbers |-> a, coords |-> c, meta |-> m] :
                    m \in {NoMeta, FullMeta(len(a))}} : a \in nums, c \in crds}

\* a client calls Molecule(atomic_numbers, coords, ...)
Molecule ==
    /\ pc = "new"
    /\ \E a \in CtorArgs(ArrayInts, MaxLen) :
         LET r == Molecule__init__(a.atomic_numbers, a.coords, a.meta)
         IN  /\ call' = [fn |-> "Molecule", args |-> a]
             /\ molecule' = r.mol
             /\ attrs' = r.attrs
             /\ result' = [raised |-> r.raised]
             /\ pc' = IF r.raised = "none" THEN "constructed" ELSE "raised"
    /\ UNCHANGED <<molecule2, aliased>>

CtorInit ==
    /\ pc = "new"
    /\ molecule = EmptyMolecule
    /\ attrs = [f \in FieldNames |-> Unset]
    /\ molecule2 = EmptyMolecule
    /\ aliased = FALSE
    /\ call = NoCall
    /\ result = NoResult

CtorNext == Molecule

SpecCtor == CtorInit /\ [][CtorNext]_vars

----------------------------------------------------------------------------
(* Editing a constructed molecule *)

\* vtkMolecule::AppendAtom: a new vertex, its atomic number and its position
AppendAtom_Mutant(m, atomic_num, point) ==
    [m EXCEPT !.numAtoms = @ + 1, !.atomicNumbers = Append(@, atomic_num)]

AppendAtom_AtFront(m, atomic_num, point) ==
    [m EXCEPT !.numAtoms = @ + 1,
              !.atomicNumbers = <<atomic_num>> \o @,
              !.positions = <<point>> \o @]

AppendAtom(m, atomic_num, point) ==
    [m EXCEPT !.numAtoms = @ + 1,
              !.atomicNumbers = Append(@, atomic_num),
              !.positions = Append(@, point)]

\* vtkMolecule::AppendBond: a new edge with the order as given
AppendBond_AtFront(m, atom1_index, atom2_index, bond_order) ==
    [m EXCEPT !.bonds = <<[a |-> atom1_index, b |-> atom2_index,
                           order |-> bond_order]>> \o @]

AppendBond(m, atom1_index, atom2_index, bond_order) ==
    [m EXCEPT !.bonds = Append(@, [a |-> atom1_index, b |-> atom2_index,
                                   order |-> bond_order])]

SetAtomAtomicNumber(m, atom_index, atomic_num) ==
    [m EXCEPT !.atomicNumbers[atom_index + 1] = atomic_num]

SetAtomPosition(m, atom_index, point) ==
    [m EXCEPT !.positions[atom_index + 1] = point]

SetBondOrder(m, bond_index, bond_order) ==
    [m EXCEPT !.bonds[bond_index + 1].order = bond_order]

\* vtkMolecule::DeepCopyStructure: atoms and bonds of the source, by value
DeepCopyStructure_BondsOnly(m1, m2) == [m1 EXCEPT !.bonds = m2.bonds]

DeepCopyStructure(m1, m2) ==
    [numAtoms |-> m2.numAtoms, atomicNumbers |-> m2.atomicNumbers,
     positions |-> m2.positions, bonds |-> m2.bonds]

AtomIndices(m) == 0..(total_num_atoms(m) - 1)

BondIndices(m) == 0..(total_num_bonds(m) - 1)

\* the two Molecule objects of the model, and the one that is not t
Mol(t) == IF t = 1 THEN molecule ELSE molecule2

Other(t) == 3 - t

\* a write to the atom and bond buffers of Molecule t, seen through every
\* object that refers to those buffers
WriteMol(t, m) ==
    IF t = 1
    THEN molecule' = m /\ molecule2' = (IF aliased THEN m ELSE molecule2)
    ELSE molecule2' = m /\ molecule' = (IF aliased THEN m ELSE molecule)

\* bond_order is optional in add_bond
BondOrderArgs == {[given |-> FALSE, val |-> 0]} \cup {passed(bond_order) : bond_order \in BondOrders}

add_bond_default == 1

\* atom indices a caller may pass: those of the molecule and the one past the end
AtomIndexArgs(m) == 0..total_num_atoms(m)

add_atom_on(t) ==
    /\ \E atomic_num \in AtomicNums, point \in Points :
         WriteMol(t, AppendAtom(Mol(t), atomic_num, point))
    /\ UNCHANGED <<attrs, aliased, result>>

\* vtkMolecule::AppendBond with an atom index the graph does not have: the
\* graph refuses the edge, and the order is then stored at an edge id that was
\* never set, so no bond or any one bond may take it
AppendBondRefused(m, bond_order) ==
    {m} \cup {SetBondOrder(m, bond_index, bond_order) : bond_index \in BondIndices(m)}

\* the molecules a call of add_bond can leave
add_bond_function(m, atom1_index, atom2_index, bond_order_arg) ==
    LET bond_order == ArgOrDefault(bond_order_arg, add_bond_default)
    IN  IF atom1_index \in AtomIndices(m) /\ atom2_index \in AtomIndices(m)
        THEN {AppendBond(m, atom1_index, atom2_index, bond_order)}
        ELSE AppendBondRefused(m, bond_order)

add_bond_on(t) ==
    /\ \E atom1_index \in AtomIndexArgs(Mol(t)), atom2_index \in AtomIndexArgs(Mol(t)),
          bond_order \in BondOrderArgs :
         \E m \in add_bond_function(Mol(t), atom1_index, atom2_index, bond_order) :
            WriteMol(t, m)
    /\ UNCHANGED <<attrs, aliased, result>>

set_atomic_number_on(t) ==
    /\ \E atom_index \in AtomIndices(Mol(t)), atomic_num \in AtomicNums :
         WriteMol(t, SetAtomAtomicNumber(Mol(t), atom_index, atomic_num))
    /\ UNCHANGED <<attrs, aliased, result>>

set_atomic_position_on(t) ==
    /\ \E atom_index \in AtomIndices(Mol(t)), point \in Points :
         WriteMol(t, SetAtomPosition(Mol(t), atom_index, point))
    /\ UNCHANGED <<attrs, aliased, result>>

set_bond_order_on(t) ==
    /\ \E bond_index \in BondIndices(Mol(t)), bond_order \in BondOrders :
         WriteMol(t, SetBondOrder(Mol(t), bond_index, bond_order))
    /\ UNCHANGED <<attrs, aliased, result>>

SharesBuffersAfterCopy_Mutant == TRUE

\* DeepCopyStructure gives the target buffers of its own
SharesBuffersAfterCopy == FALSE

\* deep_copy_molecule(Mol(t), Mol(Other(t)))
deep_copy_molecule_on(t) ==
    /\ IF t = 1
       THEN molecule' = DeepCopyStructure(molecule, molecule2) /\ UNCHANGED molecule2
       ELSE molecule2' = DeepCopyStructure(molecule2, molecule) /\ UNCHANGED molecule
    /\ aliased' = SharesBuffersAfterCopy
    /\ UNCHANGED <<attrs, result>>

add_atom ==
    /\ pc = "constructed"
    /\ total_num_atoms(molecule) < MaxAtoms
    /\ add_atom_on(1)
    /\ UNCHANGED <<pc, call>>

add_bond ==
    /\ pc = "constructed"
    /\ total_num_bonds(molecule) < MaxBonds
    /\ add_bond_on(1)
    /\ UNCHANGED <<pc, call>>

set_atomic_number == pc = "constructed" /\ set_atomic_number_on(1) /\ UNCHANGED <<pc, call>>

set_atomic_position == pc = "constructed" /\ set_atomic_position_on(1) /\ UNCHANGED <<pc, call>>

set_bond_order == pc = "constructed" /\ set_bond_order_on(1) /\ UNCHANGED <<pc, call>>

deep_copy_molecule == pc = "constructed" /\ deep_copy_molecule_on(1) /\ UNCHANGED <<pc, call>>

\* bonder.SetTolerance(0.1), in hundredths of an Angstrom
Tolerance == 10

\* covalent radii of the periodic table (Blue Obelisk data), in hundredths
GetCovalentRadius(atomic_number) ==
    CASE atomic_number = 1 -> 37
      [] atomic_number = 6 -> 77
      [] atomic_number = 8 -> 73
      [] OTHER -> 0

Distance2BetweenPoints(p, q) ==
    (p[1] - q[1]) * (p[1] - q[1]) + (p[2] - q[2]) * (p[2] - q[2])
        + (p[3] - q[3]) * (p[3] - q[3])

\* vtkSimpleBondPerceiver's test on atoms i < j: closer than the sum of the
\* covalent radii plus the tolerance, not coincident (more than 0.1 A^2
\* apart), and not two hydrogens
Perceived_Mutant(m, i, j) ==
    ~(get_atomic_number(m, i) = 1 /\ get_atomic_number(m, j) = 1)

Perceived(m, i, j) ==
    LET cutoff == GetCovalentRadius(get_atomic_number(m, i))
                    + GetCovalentRadius(get_atomic_number(m, j)) + Tolerance
        diffsq == Distance2BetweenPoints(get_atomic_position(m, i),
                                         get_atomic_position(m, j))
    IN  /\ ~(get_atomic_number(m, i) = 1 /\ get_atomic_number(m, j) = 1)
        /\ diffsq < cutoff * cutoff
        /\ diffsq > 1000

RECURSIVE PerceiveFrom(_, _)
\* the perceiver's double loop, for i, for j > i, flattened to k = i * n + j
PerceiveFrom(m, k) ==
    LET n == total_num_atoms(m)
        i == k \div n
        j == k % n
    IN  IF n = 0 \/ k >= n * n THEN m
        ELSE IF i < j /\ Perceived(m, i, j)
             THEN PerceiveFrom(AppendBond(m, i, j, 1), k + 1)
             ELSE PerceiveFrom(m, k + 1)

\* the bond perceiver's output: a copy of its input plus the perceived bonds
SimpleBondPerceiver(m) == PerceiveFrom(DeepCopyStructure(EmptyMolecule, m), 0)

compute_bonding_on(t) ==
    /\ WriteMol(t, DeepCopyStructure(Mol(t), SimpleBondPerceiver(Mol(t))))
    /\ UNCHANGED <<attrs, aliased, result>>

compute_bonding ==
    /\ pc = "constructed"
    /\ total_num_bonds(SimpleBondPerceiver(molecule)) <= MaxBonds
    /\ compute_bonding_on(1)
    /\ UNCHANGED <<pc, call>>

\* molecules a second Molecule object can hold: built by the constructor and add_bond
SourceMolecules ==
    {EmptyMolecule,
     AppendBond(Molecule__init__(ndarray(<<6, 1>>),
                                 ndarray(<< <<0, 0, 0>>, <<150, 0, 0>> >>), NoMeta).mol,
                0, 1, 3)}

\* the states a successful construction leaves
Init ==
    /\ pc = "constructed"
    /\ \E a \in CtorArgs(AtomicNums, MaxAtoms) :
         LET r == Molecule__init__(a.atomic_numbers, a.coords, a.meta)
         IN  /\ r.raised = "none"
             /\ molecule = r.mol
             /\ attrs = r.attrs
    /\ molecule2 \in SourceMolecules
    /\ aliased = FALSE
    /\ call = NoCall
    /\ result = NoResult

Next ==
    \/ add_atom
    \/ add_bond
    \/ set_atomic_number
    \/ set_atomic_position
    \/ set_bond_order
    \/ deep_copy_molecule
    \/ compute_bonding

Spec == Init /\ [][Next]_vars

----------------------------------------------------------------------------
(* Two Molecule objects and every script of two calls on them *)

\* molecules without atoms, with atoms but no bonds, and bonded
CopyMolecules ==
    SourceMolecules \cup
        {Molecule__init__(ndarray(<<6, 6>>),
                          ndarray(<< <<0, 0, 0>>, <<150, 0, 0>> >>), NoMeta).mol}

CopyInit ==
    /\ pc = "constructed"
    /\ molecule \in CopyMolecules
    /\ molecule2 \in CopyMolecules
    /\ attrs = NoMeta
    /\ aliased = FALSE
    /\ call = NoCall
    /\ result = NoResult

\* a call with Molecule t as its first argument; the script ends after two calls
Called(t, fn, op) ==
    /\ pc \in {"constructed", "called"}
    /\ op
    /\ pc' = (IF pc = "constructed" THEN "called" ELSE "done")
    /\ call' = [fn |-> fn, target |-> t]

copy_deep_copy_molecule ==
    \E t \in {1, 2} : Called(t, "deep_copy_molecule", deep_copy_molecule_on(t))

copy_add_atom == \E t \in {1, 2} : Called(t, "add_atom", add_atom_on(t))

copy_add_bond == \E t \in {1, 2} : Called(t, "add_bond", add_bond_on(t))

copy_set_atomic_number ==
    \E t \in {1, 2} : Called(t, "set_atomic_number", set_atomic_number_on(t))

copy_set_atomic_position ==
    \E t \in {1, 2} : Called(t, "set_atomic_position", set_atomic_position_on(t))

copy_set_bond_order == \E t \in {1, 2} : Called(t, "set_bond_order", set_bond_order_on(t))

copy_compute_bonding == \E t \in {1, 2} : Called(t, "compute_bonding", compute_bonding_on(t))

CopyNext ==
    \/ copy_deep_copy_molecule
    \/ copy_compute_bonding
    \/ copy_add_atom
    \/ copy_add_bond
    \/ copy_set_atomic_number
    \/ copy_set_atomic_position
    \/ copy_set_bond_order

SpecCopy == CopyInit /\ [][CopyNext]_vars

----------------------------------------------------------------------------
(* Python strings and keyword arguments *)

UpperCase == <<"A", "B", "C", "D", "E", "F", "G", "H", "I", "J", "K", "L", "M", "N", "O", "P", "Q", "R", "S", "T", "U", "V", "W", "X", "Y", "Z">>

LowerCase == <<"a", "b", "c", "d", "e", "f", "g", "h", "i", "j", "k", "l", "m", "n", "o", "p", "q", "r", "s", "t", "u", "v", "w", "x", "y", "z">>

LowerChar(c) ==
    IF \E k \in DOMAIN UpperCase : UpperCase[k] = c
    THEN LowerCase[CHOOSE k \in DOMAIN UpperCase : UpperCase[k] = c]
    ELSE c

lower_Mutant(s) == s

\* str.lower()
lower(s) == [k \in DOMAIN s |-> LowerChar(s[k])]

\* a string argument
str(s) == passed(s)

ColormodeArgs ==
    {omitted} \cup
    {str(<<"d", "i", "s", "c", "r", "e", "t", "e">>),
     str(<<"D", "I", "S", "C", "R", "E", "T", "E">>),
     str(<<"D", "i", "s", "c", "r", "e", "t", "e">>),
     str(<<"s", "i", "n", "g", "l", "e">>),
     str(<<"S", "I", "N", "G", "L", "E">>),
     str(<<"S", "i", "n", "g", "l", "e">>),
     str(<<"r", "a", "i", "n", "b", "o", "w">>),
     str(<<>>)}

MultipleBondsArgs ==
    {omitted} \cup
    {str(<<"o", "n">>),
     str(<<"O", "N">>),
     str(<<"O", "n">>),
     str(<<"o", "f", "f">>),
     str(<<"O", "F", "F">>),
     str(<<"O", "f", "f">>),
     str(<<"m", "a", "y", "b", "e">>)}

RadiusTypeArgs ==
    {omitted} \cup
    {str(<<"v", "d", "w">>),
     str(<<"V", "D", "W">>),
     str(<<"V", "d", "w">>),
     str(<<"c", "o", "v", "a", "l", "e", "n", "t">>),
     str(<<"C", "o", "v", "a", "l", "e", "n", "t">>),
     str(<<"C", "O", "V", "A", "L", "E", "N", "T">>),
     str(<<"i", "o", "n", "i", "c">>),
     str(<<>>)}

\* atom_scale_factor and bond_thickness are handed on as they are
FloatArgs == {omitted, str(<<"0", ".", "5">>)}

----------------------------------------------------------------------------
(* PeriodicTable.atomic_radius *)

NoValue == [kind |-> "none", of |-> 0]

Actor == [kind |-> "vtkActor", of |-> 0]

\* Van der Waals radii of the periodic table (Blue Obelisk data), in hundredths
GetVDWRadius(atomic_number) ==
    CASE atomic_number = 1 -> 120
      [] atomic_number = 6 -> 170
      [] atomic_number = 8 -> 152
      [] OTHER -> 0

Float(x) == [kind |-> "float", of |-> x]

NoMapper == [created |-> FALSE]

Returned(value, mapper, warnings) ==
    [raised |-> "none", value |-> value, mapper |-> mapper, warnings |-> warnings]

Raised(exception) ==
    [raised |-> exception, value |-> NoValue, mapper |-> NoMapper, warnings |-> <<>>]

atomic_radius_default == <<"V", "D", "W">>

PeriodicTable_atomic_radius(atomic_number, radius_type_arg) ==
    LET radius_type == lower(ArgOrDefault(radius_type_arg, atomic_radius_default))
    IN  IF radius_type = <<"v", "d", "w">>
        THEN Returned(Float(GetVDWRadius(atomic_number)), NoMapper, <<>>)
        ELSE IF radius_type = <<"c", "o", "v", "a", "l", "e", "n", "t">>
        THEN Returned(Float(GetCovalentRadius(atomic_number)), NoMapper, <<>>)
        ELSE Raised("ValueError: Incorrect radius_type specified.")

atomic_radius ==
    /\ pc = "constructed"
    /\ \E atomic_number \in {1, 6, 8}, radius_type \in RadiusTypeArgs :
         /\ call' = [fn |-> "atomic_radius",
                     args |-> [atomic_number |-> atomic_number, radius_type |-> radius_type]]
         /\ result' = PeriodicTable_atomic_radius(atomic_number, radius_type)
    /\ UNCHANGED <<pc, molecule, attrs, molecule2, aliased>>

----------------------------------------------------------------------------
(* sphere_cpk, ball_stick, stick *)

\* vtk.vtkOpenGLMoleculeMapper(): the toolkit's mapper as its constructor
\* leaves it (atoms and bonds rendered, both colour modes DiscreteByAtom,
\* multi-cylinder bonds on)
vtkOpenGLMoleculeMapper ==
    [created |-> TRUE, input |-> EmptyMolecule,
     RenderAtoms |-> TRUE, RenderBonds |-> TRUE,
     AtomicRadiusType |-> "VDWRadius", AtomicRadiusScaleFactor |-> <<"0", ".", "3">>,
     BondRadius |-> <<"0", ".", "0", "7", "5">>,
     AtomColorMode |-> 1, BondColorMode |-> 1, UseMultiCylindersForBonds |-> 1]

NoBondingData_Mutant(m) == total_num_atoms(m) = 0

NoBondingData(m) == total_num_bonds(m) = 0

sphere_cpk_colormode(mapper, colormode) ==
    IF colormode = <<"d", "i", "s", "c", "r", "e", "t", "e">>
    THEN [mapper |-> [mapper EXCEPT !.AtomColorMode = 1], warnings |-> <<>>]
    ELSE IF colormode = <<"s", "i", "n", "g", "l", "e">>
    THEN [mapper |-> [mapper EXCEPT !.AtomColorMode = 0], warnings |-> <<>>]
    ELSE [mapper |-> [mapper EXCEPT !.AtomColorMode = 1],
          warnings |-> <<"Incorrect colormode specified! Using discrete.">>]

sphere_cpk_function(m, colormode_arg) ==
    LET colormode == lower(ArgOrDefault(colormode_arg, <<"d", "i", "s", "c", "r", "e", "t", "e">>))
        msp_mapper == [vtkOpenGLMoleculeMapper EXCEPT
                         !.input = m, !.RenderAtoms = TRUE, !.RenderBonds = FALSE,
                         !.AtomicRadiusType = "VDWRadius",
                         !.AtomicRadiusScaleFactor = <<"1">>]
        coloured == sphere_cpk_colormode(msp_mapper, colormode)
    IN  Returned(Actor, coloured.mapper, coloured.warnings)

ball_stick_multiple_bonds_Mutant(mapper, multiple_bonds) ==
    IF multiple_bonds = <<"o", "n">>
    THEN [mapper |-> [mapper EXCEPT !.UseMultiCylindersForBonds = 1], warnings |-> <<>>]
    ELSE [mapper |-> [mapper EXCEPT !.UseMultiCylindersForBonds = 0], warnings |-> <<>>]

ball_stick_multiple_bonds(mapper, multiple_bonds) ==
    IF multiple_bonds = <<"o", "n">>
    THEN [mapper |-> [mapper EXCEPT !.UseMultiCylindersForBonds = 1], warnings |-> <<>>]
    ELSE IF multiple_bonds = <<"o", "f", "f">>
    THEN [mapper |-> [mapper EXCEPT !.UseMultiCylindersForBonds = 0], warnings |-> <<>>]
    ELSE [mapper |-> [mapper EXCEPT !.UseMultiCylindersForBonds = 1],
          warnings |-> <<"Incorrect choice for multiple_bonds! Setting it to on.">>]

ball_stick_colormode_Mutant(mapper, colormode) ==
    IF colormode = <<"d", "i", "s", "c", "r", "e", "t", "e">>
    THEN [mapper |-> [mapper EXCEPT !.AtomColorMode = 1, !.BondColorMode = 1],
          warnings |-> <<>>]
    ELSE [mapper |-> [mapper EXCEPT !.AtomColorMode = 0, !.BondColorMode = 0],
          warnings |-> <<>>]

ball_stick_colormode(mapper, colormode) ==
    IF colormode = <<"d", "i", "s", "c", "r", "e", "t", "e">>
    THEN [mapper |-> [mapper EXCEPT !.AtomColorMode = 1, !.BondColorMode = 1],
          warnings |-> <<>>]
    ELSE IF colormode = <<"s", "i", "n", "g", "l", "e">>
    THEN [mapper |-> [mapper EXCEPT !.AtomColorMode = 0, !.BondColorMode = 0],
          warnings |-> <<>>]
    ELSE [mapper |-> [mapper EXCEPT !.AtomColorMode = 1],
          warnings |-> <<"Incorrect colormode specified! Using discrete.">>]

ball_stick_function(m, colormode_arg, atom_scale_factor_arg, bond_thickness_arg, multiple_bonds_arg) ==
    IF NoBondingData(m)
    THEN Raised("ValueError: No bonding data available for the molecule!")
    ELSE
    LET colormode == lower(ArgOrDefault(colormode_arg, <<"d", "i", "s", "c", "r", "e", "t", "e">>))
        multiple_bonds == lower(ArgOrDefault(multiple_bonds_arg, <<"o", "n">>))
        bs_mapper == [vtkOpenGLMoleculeMapper EXCEPT
                        !.input = m, !.RenderAtoms = TRUE, !.RenderBonds = TRUE,
                        !.BondRadius = ArgOrDefault(bond_thickness_arg, <<"0", ".", "1">>),
                        !.AtomicRadiusType = "VDWRadius",
                        !.AtomicRadiusScaleFactor =
                            ArgOrDefault(atom_scale_factor_arg, <<"0", ".", "3">>)]
        bonded == ball_stick_multiple_bonds(bs_mapper, multiple_bonds)
        coloured == ball_stick_colormode(bonded.mapper, colormode)
    IN  Returned(Actor, coloured.mapper, bonded.warnings \o coloured.warnings)

stick_colormode_Mutant(mapper, colormode) ==
    IF colormode = <<"d", "i", "s", "c", "r", "e", "t", "e">>
    THEN [mapper |-> [mapper EXCEPT !.AtomColorMode = 1, !.BondColorMode = 1],
          warnings |-> <<>>]
    ELSE IF colormode = <<"s", "i", "n", "g", "l", "e">>
    THEN [mapper |-> [mapper EXCEPT !.AtomColorMode = 0], warnings |-> <<>>]
    ELSE [mapper |-> [mapper EXCEPT !.AtomColorMode = 1],
          warnings |-> <<"Incorrect colormode specified! Using discrete.">>]

stick_colormode(mapper, colormode) ==
    IF colormode = <<"d", "i", "s", "c", "r", "e", "t", "e">>
    THEN [mapper |-> [mapper EXCEPT !.AtomColorMode = 1, !.BondColorMode = 1],
          warnings |-> <<>>]
    ELSE IF colormode = <<"s", "i", "n", "g", "l", "e">>
    THEN [mapper |-> [mapper EXCEPT !.AtomColorMode = 0, !.BondColorMode = 0],
          warnings |-> <<>>]
    ELSE [mapper |-> [mapper EXCEPT !.AtomColorMode = 1],
          warnings |-> <<"Incorrect colormode specified! Using discrete.">>]

stick_function(m, colormode_arg, bond_thickness_arg) ==
    IF NoBondingData(m)
    THEN Raised("ValueError: No bonding data available for the molecule!")
    ELSE
    LET colormode == lower(ArgOrDefault(colormode_arg, <<"d", "i", "s", "c", "r", "e", "t", "e">>))
        mst_mapper == [vtkOpenGLMoleculeMapper EXCEPT
                         !.input = m, !.RenderAtoms = TRUE, !.RenderBonds = TRUE,
                         !.BondRadius = ArgOrDefault(bond_thickness_arg, <<"0", ".", "1">>),
                         !.AtomicRadiusType = "UnitRadius",
                         !.AtomicRadiusScaleFactor =
                             ArgOrDefault(bond_thickness_arg, <<"0", ".", "1">>)]
        coloured == stick_colormode(mst_mapper, colormode)
    IN  Returned(Actor, coloured.mapper, coloured.warnings)

sphere_cpk ==
    /\ pc = "constructed"
    /\ \E colormode \in ColormodeArgs :
         /\ call' = [fn |-> "sphere_cpk", args |-> [colormode |-> colormode]]
         /\ result' = sphere_cpk_function(molecule, colormode)
    /\ UNCHANGED <<pc, molecule, attrs, molecule2, aliased>>

ball_stick ==
    /\ pc = "constructed"
    /\ \E colormode \in ColormodeArgs, atom_scale_factor \in FloatArgs,
          bond_thickness \in FloatArgs, multiple_bonds \in MultipleBondsArgs :
         /\ call' = [fn |-> "ball_stick",
                     args |-> [colormode |-> colormode,
                               atom_scale_factor |-> atom_scale_factor,
                               bond_thickness |-> bond_thickness,
                               multiple_bonds |-> multiple_bonds]]
         /\ result' = ball_stick_function(molecule, colormode, atom_scale_factor,
                                          bond_thickness, multiple_bonds)
    /\ UNCHANGED <<pc, molecule, attrs, molecule2, aliased>>

stick ==
    /\ pc = "constructed"
    /\ \E colormode \in ColormodeArgs, bond_thickness \in FloatArgs :
         /\ call' = [fn |-> "stick",
                     args |-> [colormode |-> colormode, bond_thickness |-> bond_thickness]]
         /\ result' = stick_function(molecule, colormode, bond_thickness)
    /\ UNCHANGED <<pc, molecule, attrs, molecule2, aliased>>

\* molecules handed to the actors: without atoms, with atoms but no bonds, bonded
CallsInit ==
    /\ pc = "constructed"
    /\ molecule \in SourceMolecules \cup
                    {Molecule__init__(ndarray(<<6, 6>>),
                                      ndarray(<< <<0, 0, 0>>, <<150, 0, 0>> >>), NoMeta).mol}
    /\ attrs = NoMeta
    /\ molecule2 = EmptyMolecule
    /\ aliased = FALSE
    /\ call = NoCall
    /\ result = Raised("none")

CallsNext ==
    \/ atomic_radius
    \/ sphere_cpk
    \/ ball_stick
    \/ stick

SpecCalls == CallsInit /\ [][CallsNext]_vars

----------------------------------------------------------------------------
(* ribbon *)

ord_c == 99

ord_s == 115

ord_h == 104

\* the skip test of both loops, negated: the row is for the atom's chain and
\* its residue range holds the atom's residue number
InRow_Mutant(chain_i, resi, row) ==
    ~(chain_i # row[1] \/ resi <= row[2] \/ resi >= row[4])

InRow(chain_i, resi, row) ==
    ~(chain_i # row[1] \/ resi < row[2] \/ resi > row[4])

RECURSIVE MarkRows(_, _, _, _, _, _)
\* for j, _ in enumerate(rows): a row the atom is in overwrites the mark
MarkRows(current, chain_i, resi, rows, j, mark) ==
    IF j > Len(rows) THEN current
    ELSE MarkRows(IF InRow(chain_i, resi, rows[j]) THEN mark ELSE current,
                  chain_i, resi, rows, j + 1, mark)

\* one pass of the loop over the atoms: coil, then the sheets, then the helices
secondary_structure(a, i) ==
    LET resi == a.residue_seq.val[i]
        chain_i == a.chain.val[i]
        after_sheets == MarkRows(ord_c, chain_i, resi, a.sheet.val, 1, ord_s)
    IN  MarkRows(after_sheets, chain_i, resi, a.helix.val, 1, ord_h)

\* table.atom_color: the element's colour, kept apart from other values by a tag
atom_color(atomic_number) == [kind |-> "rgb", of |-> atomic_number]

\* numpy_to_vtk(..., array_type=VTK_UNSIGNED_CHAR)
to_unsigned_char(v) == [i \in DOMAIN v |-> v[i] % 256]

\* numpy_to_vtk(..., array_type=VTK_UNSIGNED_INT): the model numbers are
\* non-negative and below 2^31, and 32 bits hold them unchanged
to_unsigned_int(v) == [i \in DOMAIN v |-> v[i]]

bools_to_unsigned_char(v) == [i \in DOMAIN v |-> IF v[i] THEN 1 ELSE 0]

RibbonReturned(arrays) ==
    [raised |-> "none", value |-> Actor, mapper |-> NoMapper, warnings |-> <<>>,
     arrays |-> arrays]

ribbon_function(m, a) ==
    LET n == total_num_atoms(m)
        all_atomic_numbers == get_all_atomic_numbers(m)
    IN  IF \E f \in FieldNames : a[f] = Unset
        THEN Raised("AttributeError")
        ELSE IF \/ \E f \in FieldNames \ {"atom_names"} : a[f] = None
                \/ n > 0 /\ a.atom_names = None
        THEN Raised("TypeError")
        ELSE IF n > len(a.residue_seq)
        THEN Raised("IndexError")
        ELSE IF n > len(a.chain) /\ (len(a.sheet) > 0 \/ len(a.helix) > 0)
        THEN Raised("IndexError")
        ELSE IF n > len(a.atom_names)
        THEN Raised("IndexError")
        ELSE RibbonReturned(
            [atom_type |-> all_atomic_numbers,
             atom_types |-> [i \in 1..n |-> a.atom_names.val[i]],
             residue |-> a.residue_seq.val,
             chain |-> to_unsigned_char(a.chain.val),
             secondary_structures |-> [i \in 1..n |-> secondary_structure(a, i)],
             secondary_structures_begin |-> [i \in 1..n |-> 1],
             secondary_structures_end |-> [i \in 1..n |-> 1],
             ishetatm |-> bools_to_unsigned_char(a.is_hetatm.val),
             model |-> to_unsigned_int(a.model.val),
             rgb_colors |-> [i \in 1..n |-> atom_color(all_atomic_numbers[i])],
             radius |-> [i \in 1..n |->
                           PeriodicTable_atomic_radius(all_atomic_numbers[i],
                                                       str(<<"V", "D", "W">>)).value],
             points |-> numpy_to_vtk_points(get_all_atomic_positions(m))])

ribbon ==
    /\ pc = "constructed"
    /\ call' = [fn |-> "ribbon"]
    /\ result' = ribbon_function(molecule, attrs)
    /\ UNCHANGED <<pc, molecule, attrs, molecule2, aliased>>

\* rows (chain, first residue, chain, last residue) of the sheet and helix arrays
Row(chain_id, first, last) == <<chain_id, first, chain_id, last>>

SheetArgs == {<<>>, <<Row(65, 2, 3)>>, <<Row(66, 1, 1), Row(65, 3, 3)>>}

HelixArgs == {<<>>, <<Row(65, 2, 2)>>, <<Row(66, 1, 3)>>}

\* metadata for n atoms, as documented: per-atom arrays of length n
RibbonMeta(n) ==
    {[atom_names |-> ndarray([i \in 1..n |-> "CA"]),
      model |-> ndarray([i \in 1..n |-> 1]),
      residue_seq |-> ndarray(r),
      chain |-> ndarray(c),
      sheet |-> ndarray(sh),
      helix |-> ndarray(he),
      is_hetatm |-> ndarray([i \in 1..n |-> FALSE])] :
        r \in [1..n -> 1..3], c \in [1..n -> {65, 66}], sh \in SheetArgs, he \in HelixArgs}

\* the states a successful construction leaves: without arguments, without
\* metadata, and with metadata
RibbonInit ==
    /\ pc = "constructed"
    /\ \E n \in 0..MaxAtoms :
         \E a \in {[atomic_numbers |-> None, coords |-> None, meta |-> NoMeta]} \cup
                  {[atomic_numbers |-> ndarray([i \in 1..n |-> 6]),
                    coords |-> ndarray([i \in 1..n |-> <<0, 0, 0>>]),
                    meta |-> meta] : meta \in RibbonMeta(n) \cup {NoMeta}} :
            LET r == Molecule__init__(a.atomic_numbers, a.coords, a.meta)
            IN  /\ r.raised = "none"
                /\ molecule = r.mol
                /\ attrs = r.attrs
    /\ molecule2 = EmptyMolecule
    /\ aliased = FALSE
    /\ call = NoCall
    /\ result = NoResult

RibbonNext ==
    \/ add_atom
    \/ ribbon

SpecRibbon == RibbonInit /\ [][RibbonNext]_vars

----------------------------------------------------------------------------
(* material.manifest_standard, as test_manifest_standard calls it *)

\* the test's actors: squares and boxes have a property, the actor of
\* contour_from_label has none
MaterialActors == {"square", "box", "contour_from_label"}

HasProperty(actor) == actor # "contour_from_label"

InterpolationNames ==
    {<<"f", "l", "a", "t">>, <<"g", "o", "u", "r", "a", "u", "d">>, <<"p", "h", "o", "n", "g">>}

InterpolationArgs ==
    {omitted} \cup {str(name) : name \in InterpolationNames} \cup {str(<<"t", "e", "s", "t">>)}

LevelArgs == {0, 1}

UnknownInterpolation_Mutant(interpolation) == FALSE

UnknownInterpolation(interpolation) == interpolation \notin InterpolationNames

manifest_standard_default == <<"g", "o", "u", "r", "a", "u", "d">>

\* an actor without a property is left alone with a warning; an unknown
\* interpolation is ignored with a warning and the levels are still applied
manifest_standard_function(actor, ambient_level, diffuse_level, specular_level, interpolation_arg) ==
    LET interpolation == ArgOrDefault(interpolation_arg, manifest_standard_default)
        levels == [ambient |-> ambient_level, diffuse |-> diffuse_level,
                   specular |-> specular_level]
    IN  IF ~HasProperty(actor)
        THEN Returned(NoValue, NoMapper, <<"UserWarning">>)
        ELSE IF UnknownInterpolation(interpolation)
        THEN Returned([kind |-> "property", of |-> levels], NoMapper, <<"UserWarning">>)
        ELSE Returned([kind |-> "property", of |-> levels], NoMapper, <<>>)

manifest_standard ==
    /\ pc = "constructed"
    /\ \E actor \in MaterialActors, interpolation \in InterpolationArgs,
          ambient_level \in LevelArgs, diffuse_level \in LevelArgs,
          specular_level \in LevelArgs :
         /\ call' = [fn |-> "manifest_standard",
                     args |-> [actor |-> actor, interpolation |-> interpolation,
                               ambient_level |-> ambient_level,
                               diffuse_level |-> diffuse_level,
                               specular_level |-> specular_level]]
         /\ result' = manifest_standard_function(actor, ambient_level, diffuse_level,
                                                 specular_level, interpolation)
    /\ UNCHANGED <<pc, molecule, attrs, molecule2, aliased>>

MaterialInit ==
    /\ pc = "constructed"
    /\ molecule = EmptyMolecule
    /\ attrs = NoMeta
    /\ molecule2 = EmptyMolecule
    /\ aliased = FALSE
    /\ call = NoCall
    /\ result = NoResult

MaterialNext == manifest_standard

SpecMaterial == MaterialInit /\ [][MaterialNext]_vars

----------------------------------------------------------------------------
(* Claims about the constructor, checked under SpecCtor *)

CtorCalled == call.fn = "Molecule"

BothArrays == /\ CtorCalled
              /\ isinstance_ndarray(call.args.atomic_numbers)
              /\ isinstance_ndarray(call.args.coords)

NothingInitialised == /\ molecule = EmptyMolecule
                      /\ \A f \in FieldNames : attrs[f] = Unset

\* C1: a constructor call with two numpy arrays of different lengths raises
\* ValueError and leaves the molecule without atoms and without any metadata
\* field assigned.
C1_LengthMismatchRaises ==
    (BothArrays /\ len(call.args.atomic_numbers) # len(call.args.coords))
        => /\ pc = "raised"
           /\ result.raised = "ValueError: Mismatch in length"
           /\ NothingInitialised

C1_Witness ==
    /\ BothArrays
    /\ len(call.args.atomic_numbers) < len(call.args.coords)
    /\ call.args.meta # NoMeta
    /\ pc = "raised"

\* C4: when at least one of atomic_numbers and coords is supplied and either is
\* not a numpy array, the constructor raises the type ValueError, whatever the
\* lengths are (the type check comes before the length comparison).
C4_TypeCheckFirst ==
    (/\ CtorCalled
     /\ ~(call.args.atomic_numbers = None /\ call.args.coords = None)
     /\ (~isinstance_ndarray(call.args.atomic_numbers)
            \/ ~isinstance_ndarray(call.args.coords)))
        => /\ pc = "raised"
           /\ result.raised = "ValueError: atom_types and coords must be numpy arrays."
           /\ NothingInitialised

C4_Witness ==
    /\ CtorCalled
    /\ call.args.atomic_numbers.kind = "list"
    /\ call.args.coords.kind = "ndarray"
    /\ len(call.args.atomic_numbers) # len(call.args.coords)
    /\ result.raised = "ValueError: atom_types and coords must be numpy arrays."

EqualLengthArrays == BothArrays /\ len(call.args.atomic_numbers) = len(call.args.coords)

\* C5 as stated: two numpy arrays of equal length N give a molecule of N atoms
\* and no bonds in which atom i has atomic number atomic_numbers[i] and
\* position coords[i].
C5_Original ==
    EqualLengthArrays
        => /\ pc = "constructed"
           /\ total_num_atoms(molecule) = len(call.args.atomic_numbers)
           /\ total_num_bonds(molecule) = 0
           /\ \A i \in 0..(len(call.args.atomic_numbers) - 1) :
                /\ get_atomic_number(molecule, i) = call.args.atomic_numbers.val[i + 1]
                /\ get_atomic_position(molecule, i) = call.args.coords.val[i + 1]

\* C5 amended: two numpy arrays of equal length N give a molecule of N atoms
\* and no bonds in which atom i has position coords[i] and the atomic number
\* atomic_numbers[i] reduced modulo 65536, which is atomic_numbers[i] itself
\* whenever that lies in 0..65535.
C5_StoredAsUnsignedShort ==
    EqualLengthArrays
        => /\ pc = "constructed"
           /\ total_num_atoms(molecule) = len(call.args.atomic_numbers)
           /\ total_num_bonds(molecule) = 0
           /\ \A i \in 0..(len(call.args.atomic_numbers) - 1) :
                LET given == call.args.atomic_numbers.val[i + 1]
                IN  /\ get_atomic_number(molecule, i) = given % 65536
                    /\ given \in 0..65535 => get_atomic_number(molecule, i) = given
                    /\ get_atomic_position(molecule, i) = call.args.coords.val[i + 1]

C5_Witness ==
    /\ EqualLengthArrays
    /\ len(call.args.atomic_numbers) = 2
    /\ call.args.atomic_numbers.val = <<6, 65537>>
    /\ call.args.coords.val[1] # call.args.coords.val[2]
    /\ get_atomic_number(molecule, 0) = 6
    /\ get_atomic_number(molecule, 1) = 1

----------------------------------------------------------------------------
(* Claims about edited molecules, checked under Spec *)

\* C2: in every state reached from a successful construction by add_atom,
\* set_atomic_number, set_atomic_position, add_bond, set_bond_order,
\* deep_copy_molecule and compute_bonding, the atomic-number array and the
\* position array have the same length, which is total_num_atoms.
C2_ArraysSameLength ==
    pc = "constructed"
        => /\ Len(get_all_atomic_numbers(molecule)) = Len(get_all_atomic_positions(molecule))
           /\ Len(get_all_atomic_numbers(molecule)) = total_num_atoms(molecule)

C2_Witness ==
    /\ pc = "constructed"
    /\ total_num_atoms(molecule) = 2
    /\ total_num_bonds(molecule) = 1
    /\ get_atomic_number(molecule, 0) # get_atomic_number(molecule, 1)
    /\ attrs = [f \in FieldNames |-> Unset]

\* C3: after any sequence of add_bond and set_bond_order calls every bond of
\* the molecule has order 1, 2 or 3.
C3_BondOrderBounded ==
    \A bond_index \in BondIndices(molecule) :
        get_bond_order(molecule, bond_index) \in {1, 2, 3}

----------------------------------------------------------------------------
(* Claims about the radius lookup and the actors, checked under SpecCalls *)

Spelt(arg, spellings) == arg.given /\ arg.val \in spellings

BondedCall(fns) == call.fn \in fns /\ total_num_bonds(molecule) > 0

\* C6: ball_stick and stick raise ValueError whenever the molecule has no
\* bonds, whatever the other arguments are, before any mapper or actor exists;
\* with at least one bond they return an actor.
C6_NoBondsRaises ==
    call.fn \in {"ball_stick", "stick"}
        => IF total_num_bonds(molecule) = 0
           THEN /\ result.raised = "ValueError: No bonding data available for the molecule!"
                /\ ~result.mapper.created
                /\ result.value = NoValue
                /\ result.warnings = <<>>
           ELSE /\ result.raised = "none"
                /\ result.value = Actor
                /\ result.mapper.created

C6_Witness ==
    /\ call.fn = "stick"
    /\ total_num_atoms(molecule) = 2
    /\ total_num_bonds(molecule) = 0
    /\ Spelt(call.args.colormode, {<<"r", "a", "i", "n", "b", "o", "w">>})
    /\ result.raised # "none"

\* C7: atomic_radius compares radius_type without regard to case: 'vdw', which
\* is also the default, returns the Van der Waals radius, 'covalent' returns
\* the covalent radius, and any other string raises ValueError and returns no
\* radius.
C7_RadiusType ==
    call.fn = "atomic_radius"
        => LET rt == call.args.radius_type
               z == call.args.atomic_number
           IN  IF ~rt.given \/ Spelt(rt, {<<"v", "d", "w">>, <<"V", "D", "W">>, <<"V", "d", "w">>})
               THEN result.raised = "none" /\ result.value = Float(GetVDWRadius(z))
               ELSE IF Spelt(rt, {<<"c", "o", "v", "a", "l", "e", "n", "t">>, <<"C", "o", "v", "a", "l", "e", "n", "t">>, <<"C", "O", "V", "A", "L", "E", "N", "T">>})
               THEN result.raised = "none" /\ result.value = Float(GetCovalentRadius(z))
               ELSE /\ result.raised = "ValueError: Incorrect radius_type specified."
                    /\ result.value = NoValue

C7_Witness ==
    /\ call.fn = "atomic_radius"
    /\ Spelt(call.args.radius_type, {<<"C", "o", "v", "a", "l", "e", "n", "t">>})
    /\ call.args.atomic_number = 6
    /\ result.value = Float(77)

\* C8: in sphere_cpk, ball_stick and stick colormode is compared without regard
\* to case: 'discrete', which is also the default, sets the atom colour mode
\* to 1 and 'single' sets it to 0, and ball_stick and stick set the bond colour
\* mode to the same value.
C8_Colormode ==
    (call.fn = "sphere_cpk" \/ BondedCall({"ball_stick", "stick"}))
        => LET cm == call.args.colormode
               mode == IF ~cm.given \/ Spelt(cm, {<<"d", "i", "s", "c", "r", "e", "t", "e">>, <<"D", "I", "S", "C", "R", "E", "T", "E">>, <<"D", "i", "s", "c", "r", "e", "t", "e">>}) THEN 1
                       ELSE IF Spelt(cm, {<<"s", "i", "n", "g", "l", "e">>, <<"S", "I", "N", "G", "L", "E">>, <<"S", "i", "n", "g", "l", "e">>}) THEN 0 ELSE 2
           IN  mode # 2
                 => /\ result.raised = "none"
                    /\ result.mapper.AtomColorMode = mode
                    /\ call.fn # "sphere_cpk" => result.mapper.BondColorMode = mode

C8_Witness ==
    /\ BondedCall({"stick"})
    /\ Spelt(call.args.colormode, {<<"S", "I", "N", "G", "L", "E">>})
    /\ result.mapper.AtomColorMode = 0
    /\ result.mapper.BondColorMode = 0

OtherColormode ==
    /\ call.fn = "sphere_cpk" \/ BondedCall({"ball_stick", "stick"})
    /\ call.args.colormode.given
    /\ call.args.colormode.val \notin {<<"d", "i", "s", "c", "r", "e", "t", "e">>, <<"D", "I", "S", "C", "R", "E", "T", "E">>, <<"D", "i", "s", "c", "r", "e", "t", "e">>} \cup {<<"s", "i", "n", "g", "l", "e">>, <<"S", "I", "N", "G", "L", "E">>, <<"S", "i", "n", "g", "l", "e">>}

\* what the same call returns with colormode='discrete'
AsDiscrete ==
    CASE call.fn = "sphere_cpk" -> sphere_cpk_function(molecule, str(<<"d", "i", "s", "c", "r", "e", "t", "e">>))
      [] call.fn = "ball_stick" ->
            ball_stick_function(molecule, str(<<"d", "i", "s", "c", "r", "e", "t", "e">>), call.args.atom_scale_factor,
                                call.args.bond_thickness, call.args.multiple_bonds)
      [] call.fn = "stick" ->
            stick_function(molecule, str(<<"d", "i", "s", "c", "r", "e", "t", "e">>), call.args.bond_thickness)

\* C9: with a colormode that is neither 'discrete' nor 'single', sphere_cpk,
\* ball_stick and stick do not raise: they warn and return an actor whose
\* mapper has atom colour mode 1 and, for ball_stick and stick, bond colour
\* mode 1, the mapper colormode='discrete' gives.
C9_OtherColormodeIsDiscrete ==
    OtherColormode
        => /\ result.raised = "none"
           /\ result.value = Actor
           /\ \E k \in DOMAIN result.warnings :
                result.warnings[k] = "Incorrect colormode specified! Using discrete."
           /\ result.mapper.AtomColorMode = 1
           /\ call.fn # "sphere_cpk" => result.mapper.BondColorMode = 1
           /\ result.mapper = AsDiscrete.mapper

C9_Witness ==
    /\ OtherColormode
    /\ call.fn = "ball_stick"
    /\ call.args.colormode.val = <<"r", "a", "i", "n", "b", "o", "w">>
    /\ result.mapper.BondColorMode = 1
    /\ Len(result.warnings) = 1

\* C10: ball_stick compares multiple_bonds without regard to case: 'on', which
\* is also the default, turns multi-cylinder bonds on (1), 'off' turns them off
\* (0), and any other string warns and turns them on (1) without raising.
C10_MultipleBonds ==
    BondedCall({"ball_stick"})
        => LET mb == call.args.multiple_bonds
               warned == \E k \in DOMAIN result.warnings :
                   result.warnings[k] = "Incorrect choice for multiple_bonds! Setting it to on."
           IN  /\ result.raised = "none"
               /\ IF ~mb.given \/ Spelt(mb, {<<"o", "n">>, <<"O", "N">>, <<"O", "n">>})
                  THEN result.mapper.UseMultiCylindersForBonds = 1 /\ ~warned
                  ELSE IF Spelt(mb, {<<"o", "f", "f">>, <<"O", "F", "F">>, <<"O", "f", "f">>})
                  THEN result.mapper.UseMultiCylindersForBonds = 0 /\ ~warned
                  ELSE result.mapper.UseMultiCylindersForBonds = 1 /\ warned

C10_Witness ==
    /\ BondedCall({"ball_stick"})
    /\ Spelt(call.args.multiple_bonds, {<<"O", "F", "F">>})
    /\ result.mapper.UseMultiCylindersForBonds = 0

----------------------------------------------------------------------------
(* Relations between two molecules that the claims use *)

SameAtoms(m1, m2) ==
    /\ total_num_atoms(m1) = total_num_atoms(m2)
    /\ get_all_atomic_numbers(m1) = get_all_atomic_numbers(m2)
    /\ get_all_atomic_positions(m1) = get_all_atomic_positions(m2)

\* the bonds of m2 beyond those m1 already had
AddedBonds(m1, m2) == (total_num_bonds(m1) + 1)..total_num_bonds(m2)

WithinBondingDistance(m, i, j) ==
    LET cutoff == GetCovalentRadius(get_atomic_number(m, i))
                    + GetCovalentRadius(get_atomic_number(m, j)) + 10
    IN  Distance2BetweenPoints(get_atomic_position(m, i), get_atomic_position(m, j))
            < cutoff * cutoff

----------------------------------------------------------------------------
(* Claims about deep_copy_molecule, checked under SpecCopy *)

SameBonds(m1, m2) == m1.bonds = m2.bonds

\* C12: deep_copy_molecule(molecule1, molecule2) makes molecule1's atoms and
\* bonds equal to molecule2's and leaves molecule2 as it was, and afterwards
\* an add_atom, add_bond, set_atomic_number, set_atomic_position or
\* set_bond_order on either molecule does not change the other.
C12_DeepCopy ==
    [][pc' # pc
        => LET t == call'.target
               other == IF t = 1 THEN molecule2 ELSE molecule
               other_after == IF t = 1 THEN molecule2' ELSE molecule'
               target_after == IF t = 1 THEN molecule' ELSE molecule2'
           IN  /\ other_after = other
               /\ call'.fn = "deep_copy_molecule"
                    => SameAtoms(target_after, other) /\ SameBonds(target_after, other)]_vars

C12_Witness ==
    /\ pc = "done"
    /\ call.fn = "set_bond_order"
    /\ call.target = 2
    /\ total_num_bonds(molecule) = 1
    /\ total_num_bonds(molecule2) = 1
    /\ SameAtoms(molecule, molecule2)
    /\ get_atomic_number(molecule, 0) # get_atomic_number(molecule, 1)
    /\ get_bond_order(molecule, 0) = 3
    /\ get_bond_order(molecule2, 0) = 4

----------------------------------------------------------------------------
(* Claims about ribbon, checked under SpecRibbon *)

InSomeRow(rows, chain_id, resi) ==
    \E j \in DOMAIN rows :
        rows[j][1] = chain_id /\ rows[j][2] <= resi /\ resi <= rows[j][4]

\* C13: ribbon marks atom i as helix ('h') if some helix row h has
\* h[0] = chain[i] and h[1] <= residue_seq[i] <= h[3]; otherwise as sheet ('s')
\* if some sheet row does; otherwise as coil ('c').  The bounds are inclusive
\* and helix wins over sheet.
C13_SecondaryStructure ==
    [][(ribbon /\ result'.raised = "none")
        => \A i \in 1..total_num_atoms(molecule) :
             LET chain_i == attrs.chain.val[i]
                 resi == attrs.residue_seq.val[i]
             IN  result'.arrays.secondary_structures[i] =
                    IF InSomeRow(attrs.helix.val, chain_i, resi) THEN 104
                    ELSE IF InSomeRow(attrs.sheet.val, chain_i, resi) THEN 115
                    ELSE 99]_vars

C13_Witness ==
    /\ call.fn = "ribbon"
    /\ result.raised = "none"
    /\ total_num_atoms(molecule) = 2
    /\ attrs.helix.val = <<Row(65, 2, 2)>>
    /\ attrs.sheet.val = <<Row(65, 2, 3)>>
    /\ attrs.chain.val = <<65, 65>>
    /\ attrs.residue_seq.val = <<2, 3>>
    /\ result.arrays.secondary_structures = <<104, 115>>

\* the per-atom arrays ribbon hands to the ribbon filter
PerAtomArrays ==
    {"atom_type", "atom_types", "residue", "chain", "secondary_structures",
     "secondary_structures_begin", "secondary_structures_end", "ishetatm", "model",
     "rgb_colors", "radius"}

ConstructedWithMetadata == \A f \in FieldNames : isinstance_ndarray(attrs[f])

\* C18: for a molecule constructed with metadata and grown by add_atom calls,
\* ribbon assembles arrays (and points) of exactly total_num_atoms entries each.
C18_RibbonArraysPerAtom ==
    [][(ribbon /\ ConstructedWithMetadata)
        => /\ result'.raised = "none"
           /\ \A name \in PerAtomArrays :
                Len(result'.arrays[name]) = total_num_atoms(molecule)
           /\ Len(result'.arrays.points) = total_num_atoms(molecule)]_vars

----------------------------------------------------------------------------
(* Claims about material.manifest_standard, checked under SpecMaterial *)

WarnedCase ==
    /\ call.fn = "manifest_standard"
    /\ \/ ~HasProperty(call.args.actor)
       \/ Spelt(call.args.interpolation, {<<"t", "e", "s", "t">>})

\* C14: manifest_standard called with an unsupported interpolation name, or on
\* an actor without the property interface, emits a UserWarning and raises
\* no exception.
C14_ManifestStandardWarns ==
    WarnedCase => result.raised = "none" /\ result.warnings = <<"UserWarning">>

C14_Witness ==
    /\ call.fn = "manifest_standard"
    /\ call.args.actor = "square"
    /\ call.args.interpolation = str(<<"t", "e", "s", "t">>)
    /\ result.raised = "none"
    /\ result.warnings = <<"UserWarning">>

----------------------------------------------------------------------------
(* Frame claims about add_atom and the bonds' end points, checked under Spec *)

\* C15: add_atom raises total_num_atoms by one, gives the new atom the index
\* of the previous total_num_atoms with the atomic number and position passed,
\* and leaves every existing atom, every bond and total_num_bonds as they were.
C15_AddAtom ==
    [][add_atom
        => LET n == total_num_atoms(molecule)
           IN  /\ total_num_atoms(molecule') = n + 1
               /\ \E atomic_num \in AtomicNums, point \in Points :
                    molecule' = AppendAtom(molecule, atomic_num, point)
               /\ \A atomic_num \in AtomicNums, point \in Points :
                    molecule' = AppendAtom(molecule, atomic_num, point)
                        => /\ get_atomic_number(molecule', n) = atomic_num
                           /\ get_atomic_position(molecule', n) = point
               /\ \A i \in AtomIndices(molecule) :
                    /\ get_atomic_number(molecule', i) = get_atomic_number(molecule, i)
                    /\ get_atomic_position(molecule', i) = get_atomic_position(molecule, i)
               /\ total_num_bonds(molecule') = total_num_bonds(molecule)
               /\ SameBonds(molecule', molecule)]_vars

C15_Witness ==
    /\ pc = "constructed"
    /\ total_num_atoms(molecule) = 2
    /\ get_atomic_number(molecule, 0) = 6
    /\ get_atomic_number(molecule, 1) = 1
    /\ get_atomic_position(molecule, 0) # get_atomic_position(molecule, 1)
    /\ total_num_bonds(molecule) = 1
    /\ get_bond_order(molecule, 0) = 3
    /\ molecule.bonds[1].a = 0 /\ molecule.bonds[1].b = 0

----------------------------------------------------------------------------
(* Claims about compute_bonding and add_bond, checked under SpecCopy *)

\* C11: compute_bonding leaves the atoms (count, atomic numbers, positions) as
\* they were, and every bond it adds has order 1 and joins two distinct atoms
\* closer than the sum of their covalent radii plus the tolerance 0.1.
C11_ComputeBondingSingleBonds ==
    [][(pc' # pc /\ call'.fn = "compute_bonding")
        => LET t == call'.target
               m == Mol(t)
               m_after == IF t = 1 THEN molecule' ELSE molecule2'
           IN  /\ SameAtoms(m, m_after)
               /\ \A k \in AddedBonds(m, m_after) :
                    LET bond == m_after.bonds[k]
                    IN  /\ bond.order = 1
                        /\ bond.a # bond.b
                        /\ bond.a \in AtomIndices(m) /\ bond.b \in AtomIndices(m)
                        /\ WithinBondingDistance(m, bond.a, bond.b)]_vars

C11_Witness ==
    /\ call.fn = "compute_bonding"
    /\ call.target = 1
    /\ total_num_atoms(molecule) = 3
    /\ total_num_bonds(molecule) = 2
    /\ get_bond_order(molecule, 0) = 3
    /\ get_bond_order(molecule, 1) = 1
    /\ molecule.bonds[2].a = 0 /\ molecule.bonds[2].b = 2

\* C16: add_bond with valid atom indices a and b raises total_num_bonds by one,
\* gives the new bond the index of the previous total_num_bonds, get_bond_order
\* returns bond_order for it (1 when bond_order is omitted), and all atoms and
\* all earlier bonds are as they were.
C16_AddBond ==
    [][(pc' # pc /\ call'.fn = "add_bond")
        => LET t == call'.target
               m == Mol(t)
               m_after == IF t = 1 THEN molecule' ELSE molecule2'
               n == total_num_bonds(m)
           IN  \A a \in AtomIndices(m), b \in AtomIndices(m), bond_order \in BondOrderArgs :
                 m_after \in add_bond_function(m, a, b, bond_order)
                    => /\ total_num_bonds(m_after) = n + 1
                       /\ get_bond_order(m_after, n) =
                            (IF bond_order.given THEN bond_order.val ELSE 1)
                       /\ m_after.bonds[n + 1].a = a
                       /\ m_after.bonds[n + 1].b = b
                       /\ SameAtoms(m_after, m)
                       /\ \A k \in BondIndices(m) :
                            m_after.bonds[k + 1] = m.bonds[k + 1]]_vars

C16_Witness ==
    /\ pc = "done"
    /\ call.fn = "add_bond"
    /\ call.target = 1
    /\ total_num_atoms(molecule) = 2
    /\ total_num_bonds(molecule) = 3
    /\ get_bond_order(molecule, 0) = 3
    /\ get_bond_order(molecule, 1) = 4
    /\ get_bond_order(molecule, 2) = 1
    /\ molecule.bonds[3].a = 1 /\ molecule.bonds[3].b = 0

----------------------------------------------------------------------------
(* Claim about the metadata attributes, checked under SpecCtor *)

\* C17: every successful construction, the one without arguments included,
\* assigns all seven metadata attributes (None when omitted), so reading any of
\* them never fails.
C17_MetadataAssigned ==
    (CtorCalled /\ pc = "constructed")
        => \A f \in FieldNames :
             /\ attrs[f] # Unset
             /\ attrs[f] = call.args.meta[f]

====
